---- MODULE Spec2Model ----
(***************************************************************************)
(* Model of the Sudoku solver of sudoku.py: the class Sudoku with its      *)
(* methods check, calculate_sets, constraint_prop and solve, executed as   *)
(* a call stack of solve() activations over a heap of Sudoku objects.      *)
(*                                                                         *)
(* One stack frame stands for one call of solve(): pc tells whether it is  *)
(* in calculate_sets, about to call check(a, b), or in constraint_prop,    *)
(* having tried the values in tried.  mode is "run" while code executes,   *)
(* "return" / "raise" while a value or a SudokuContradiction travels to    *)
(* the caller, and "returned" / "raised" once the outermost solve() ended. *)
(***************************************************************************)
EXTENDS Integers, FiniteSets, Sequences, TLC

VARIABLES given, order, sudokus, heap, stack, mode, result

vars == <<given, order, sudokus, heap, stack, mode, result>>

(* ---------------------------------------------------------------------- *)
(* Cells.  A cell of self.puzzle is the string "_", a digit string or a   *)
(* set of digit strings.  The blank "_" is written 0.                     *)
(* ---------------------------------------------------------------------- *)
Idx == 0..8

digits == 1..9

Blank == [t |-> "_", v |-> {0}]

Digit(d) == [t |-> "digit", v |-> {d}]

CandSet(S) == [t |-> "set", v |-> S]

(* isinstance(cell, set) *)
IsSet(cell) == cell.t = "set"

(* check without the early return of lines 65-67 *)
HasValue_NoReturn(cell) == FALSE

(* check, lines 63-67: neither "_" nor a set: the cell already has its value *)
HasValue(cell) == cell # Blank /\ ~IsSet(cell)

(* ---------------------------------------------------------------------- *)
(* Input grids.                                                           *)
(* ---------------------------------------------------------------------- *)
MaxBlanks == 11

(* the first sample puzzle of the demonstration, 0 for "_" *)
sudoku_repr ==
  << <<1,0,7, 6,8,5, 4,0,2>>,
     <<0,0,0, 9,1,0, 6,3,0>>,
     <<0,0,0, 2,0,0, 1,0,0>>,
     <<0,0,0, 4,6,9, 0,2,0>>,
     <<0,5,0, 0,0,0, 0,6,0>>,
     <<0,6,0, 3,5,8, 0,0,0>>,
     <<0,0,9, 0,0,6, 0,0,0>>,
     <<0,8,3, 0,9,1, 0,0,0>>,
     <<6,0,1, 5,2,3, 9,0,4>> >>

(* the solution of sudoku_repr *)
Solved ==
  << <<1,3,7, 6,8,5, 4,9,2>>,
     <<2,4,5, 9,1,7, 6,3,8>>,
     <<8,9,6, 2,3,4, 1,7,5>>,
     <<7,1,8, 4,6,9, 5,2,3>>,
     <<3,5,4, 1,7,2, 8,6,9>>,
     <<9,6,2, 3,5,8, 7,4,1>>,
     <<5,2,9, 8,4,6, 3,1,7>>,
     <<4,8,3, 7,9,1, 2,5,6>>,
     <<6,7,1, 5,2,3, 9,8,4>> >>

(* cells blanked in Solved, in this order, to make the input puzzles *)
HoleSeq ==
  << <<1,0>>, <<1,1>>, <<4,0>>, <<4,1>>, <<1,2>>, <<4,2>>, <<7,0>>,
     <<7,1>>, <<7,2>>, <<8,8>>, <<0,0>>, <<7,3>>, <<0,4>>, <<5,5>> >>

(* a given of Solved overwritten by another digit: <<row, column, digit>> *)
Tampers == { <<>>, <<0,1,8>>, <<6,0,2>> }

(* iteration orders of a set of digits: "for value in column" yields the  *)
(* members of the set in the order of one of these sequences, the same    *)
(* one for the whole run                                                  *)
Orders == { <<1,2,3,4,5,6,7,8,9>>, <<9,8,7,6,5,4,3,2,1>>, <<1,3,2,5,4,7,6,9,8>> }

(* __init__: line.split() of every non-blank line *)
Parse(rows) ==
  [r \in Idx |-> [c \in Idx |->
     IF rows[r+1][c+1] = 0 THEN Blank ELSE Digit(rows[r+1][c+1])]]

Punch(p, n) ==
  [r \in Idx |-> [c \in Idx |->
     IF \E i \in 1..n : HoleSeq[i] = <<r, c>> THEN Blank ELSE p[r][c]]]

Tamper(p, tm) ==
  IF tm = <<>> THEN p
  ELSE [p EXCEPT ![tm[1]][tm[2]] = Digit(tm[3])]

Inputs ==
  {Parse(sudoku_repr)} \cup
  { Punch(Tamper(Parse(Solved), tm), n) :
      n \in 0..(IF MaxBlanks < Len(HoleSeq) THEN MaxBlanks ELSE Len(HoleSeq)),
      tm \in Tampers }

(* ---------------------------------------------------------------------- *)
(* Heap.  sudokus[o] is the puzzle attribute of Sudoku object o: a        *)
(* reference into heap, the store of list-of-lists grids.                 *)
(* ---------------------------------------------------------------------- *)
PuzzleOf(o) == heap[sudokus[o]]

Top == stack[Len(stack)]

Pop == SubSeq(stack, 1, Len(stack) - 1)

SetTop(f) == [stack EXCEPT ![Len(stack)] = f]

Frame(o) == [self |-> o, pc |-> "calculate_sets", a |-> 0, b |-> 0, tried |-> {}]

(* for a in xrange(9): for b in xrange(9): the next (a, b) *)
NextCell(f) ==
  IF f.b < 8 THEN [f EXCEPT !.b = f.b + 1]
  ELSE [f EXCEPT !.a = f.a + 1, !.b = 0]

(* copy.copy(self): a new Sudoku object sharing the grid of self *)
ShallowCopyRef(o) == sudokus[o]

(* copy.deepcopy(self): a new Sudoku object with its own grid *)
DeepCopyRef(o) == Len(heap) + 1

(* ---------------------------------------------------------------------- *)
(* check(row, column)                                                     *)
(* ---------------------------------------------------------------------- *)
(* lines 70-74 without the scan of the row *)
RowColumnValues_ColumnOnly(p, row, column) ==
  UNION { IF IsSet(p[a][column]) THEN {} ELSE p[a][column].v : a \in Idx }

RowColumnValues(p, row, column) ==
  UNION { (IF IsSet(p[a][column]) THEN {} ELSE p[a][column].v) \cup
          (IF IsSet(p[row][a]) THEN {} ELSE p[row][a].v) : a \in Idx }

SquareValues(p, row, column) ==
  LET row_start == IF row % 3 = 0 THEN row ELSE row - (row % 3)
      column_start == IF column % 3 = 0 THEN column ELSE column - (column % 3)
  IN  UNION { IF IsSet(p[row_start + a][column_start + b]) THEN {}
              ELSE p[row_start + a][column_start + b].v :
              a \in 0..2, b \in 0..2 }

(* lines 68-83 without the scan of the block *)
ImpossibleSet_NoSquare(p, row, column) ==
  RowColumnValues(p, row, column) \ {0}

ImpossibleSet(p, row, column) ==
  (RowColumnValues(p, row, column) \cup SquareValues(p, row, column)) \ {0}

(* lines 62-84 keeping a candidate set once it has been computed *)
PossibleSet_Cached(p, row, column) ==
  IF p[row][column] = Blank THEN digits \ ImpossibleSet(p, row, column)
  ELSE p[row][column].v

PossibleSet(p, row, column) ==
  LET cell == IF p[row][column] = Blank THEN digits ELSE p[row][column].v
  IN  cell \ ImpossibleSet(p, row, column)

InCheck ==
  /\ mode = "run"
  /\ stack # <<>>
  /\ Top.pc = "calculate_sets"
  /\ Top.a < 9

(* lines 65-67: the cell already has its value *)
CheckFixed ==
  /\ InCheck
  /\ HasValue(PuzzleOf(Top.self)[Top.a][Top.b])
  /\ stack' = SetTop(NextCell(Top))
  /\ UNCHANGED <<given, order, sudokus, heap, mode, result>>

(* lines 85-90: one possible value; commit it and call self.solve() *)
CheckCommit ==
  /\ InCheck
  /\ ~HasValue(PuzzleOf(Top.self)[Top.a][Top.b])
  /\ LET ps == PossibleSet(PuzzleOf(Top.self), Top.a, Top.b)
     IN  /\ Cardinality(ps) = 1
         /\ heap' = [heap EXCEPT ![sudokus[Top.self]][Top.a][Top.b] =
                        Digit(CHOOSE d \in ps : TRUE)]
  /\ stack' = Append(stack, Frame(Top.self))
  /\ UNCHANGED <<given, order, sudokus, mode, result>>

(* lines 91-92: no possible value *)
CheckContradiction ==
  /\ InCheck
  /\ ~HasValue(PuzzleOf(Top.self)[Top.a][Top.b])
  /\ PossibleSet(PuzzleOf(Top.self), Top.a, Top.b) = {}
  /\ mode' = "raise"
  /\ stack' = Pop
  /\ UNCHANGED <<given, order, sudokus, heap, result>>

(* lines 93-94: several possible values; store the set *)
CheckNarrow ==
  /\ InCheck
  /\ ~HasValue(PuzzleOf(Top.self)[Top.a][Top.b])
  /\ LET ps == PossibleSet(PuzzleOf(Top.self), Top.a, Top.b)
     IN  /\ Cardinality(ps) > 1
         /\ heap' = [heap EXCEPT ![sudokus[Top.self]][Top.a][Top.b] = CandSet(ps)]
  /\ stack' = SetTop(NextCell(Top))
  /\ UNCHANGED <<given, order, sudokus, mode, result>>

(* ---------------------------------------------------------------------- *)
(* solve(): calculate_sets() has finished, constraint_prop() is called    *)
(* ---------------------------------------------------------------------- *)
CalculateSetsDone ==
  /\ mode = "run"
  /\ stack # <<>>
  /\ Top.pc = "calculate_sets"
  /\ Top.a = 9
  /\ stack' = SetTop([Top EXCEPT !.pc = "constraint_prop"])
  /\ UNCHANGED <<given, order, sudokus, heap, mode, result>>

(* ---------------------------------------------------------------------- *)
(* constraint_prop()                                                      *)
(* ---------------------------------------------------------------------- *)
SetCells(p) == { rc \in Idx \X Idx : IsSet(p[rc[1]][rc[2]]) }

(* the scan of lines 97-99 keeping the last set cell it meets *)
LastSetCell(p) ==
  CHOOSE rc \in SetCells(p) :
    \A q \in SetCells(p) : rc[1] * 9 + rc[2] >= q[1] * 9 + q[2]

(* the first cell of the enumerate scan that is a set *)
FirstSetCell(p) ==
  CHOOSE rc \in SetCells(p) :
    \A q \in SetCells(p) : rc[1] * 9 + rc[2] <= q[1] * 9 + q[2]

(* for value in column: the next value the set iterator yields *)
NextValue(S) ==
  order[CHOOSE i \in 1..9 : order[i] \in S /\ \A j \in 1..(i-1) : order[j] \notin S]

InProp ==
  /\ mode = "run"
  /\ stack # <<>>
  /\ Top.pc = "constraint_prop"

(* lines 102-112: next value of the set, deep copy, assign, solve the copy *)
Guess ==
  /\ InProp
  /\ SetCells(PuzzleOf(Top.self)) # {}
  /\ LET p == PuzzleOf(Top.self)
         rc == FirstSetCell(p)
         ref == DeepCopyRef(Top.self)
         value == NextValue(p[rc[1]][rc[2]].v \ Top.tried)
     IN    /\ p[rc[1]][rc[2]].v \ Top.tried # {}
           /\ heap' = [(IF ref > Len(heap) THEN Append(heap, p) ELSE heap)
                         EXCEPT ![ref][rc[1]][rc[2]] = Digit(value)]
           /\ sudokus' = Append(sudokus, ref)
           /\ stack' = Append(SetTop([Top EXCEPT !.tried = Top.tried \cup {value}]),
                              Frame(Len(sudokus) + 1))
  /\ UNCHANGED <<given, order, mode, result>>

(* lines 116-118: every value of the set was tried *)
Exhausted ==
  /\ InProp
  /\ SetCells(PuzzleOf(Top.self)) # {}
  /\ LET p == PuzzleOf(Top.self)
         rc == FirstSetCell(p)
     IN  p[rc[1]][rc[2]].v \ Top.tried = {}
  /\ mode' = "raise"
  /\ stack' = Pop
  /\ UNCHANGED <<given, order, sudokus, heap, result>>

(* line 120: no set cell; return self *)
ReturnSelf ==
  /\ InProp
  /\ SetCells(PuzzleOf(Top.self)) = {}
  /\ mode' = "return"
  /\ result' = Top.self
  /\ stack' = Pop
  /\ UNCHANGED <<given, order, sudokus, heap>>

(* ---------------------------------------------------------------------- *)
(* Returns and exceptions reaching the caller                             *)
(* ---------------------------------------------------------------------- *)
(* line 90: self.solve() returned inside check; its value is dropped *)
ReturnToCheck ==
  /\ mode = "return"
  /\ stack # <<>>
  /\ Top.pc = "calculate_sets"
  /\ mode' = "run"
  /\ result' = 0
  /\ stack' = SetTop(NextCell(Top))
  /\ UNCHANGED <<given, order, sudokus, heap>>

(* lines 112-113: return solved_sudoku *)
ReturnSolved ==
  /\ mode = "return"
  /\ stack # <<>>
  /\ Top.pc = "constraint_prop"
  /\ stack' = Pop
  /\ UNCHANGED <<given, order, sudokus, heap, mode, result>>

(* the outermost solve() returns to the caller *)
Finish ==
  /\ mode = "return"
  /\ stack = <<>>
  /\ mode' = "returned"
  /\ UNCHANGED <<given, order, sudokus, heap, stack, result>>

(* SudokuContradiction leaves check, calculate_sets and solve uncaught *)
Propagate ==
  /\ mode = "raise"
  /\ stack # <<>>
  /\ Top.pc = "calculate_sets"
  /\ stack' = Pop
  /\ UNCHANGED <<given, order, sudokus, heap, mode, result>>

(* constraint_prop without the try of lines 111-115 *)
Catch_Uncaught ==
  /\ mode = "raise"
  /\ stack # <<>>
  /\ Top.pc = "constraint_prop"
  /\ stack' = Pop
  /\ UNCHANGED <<given, order, sudokus, heap, mode, result>>

(* lines 114-115: except SudokuContradiction: continue *)
Catch ==
  /\ mode = "raise"
  /\ stack # <<>>
  /\ Top.pc = "constraint_prop"
  /\ mode' = "run"
  /\ UNCHANGED <<given, order, sudokus, heap, stack, result>>

(* SudokuContradiction leaves the outermost solve() *)
Fail ==
  /\ mode = "raise"
  /\ stack = <<>>
  /\ mode' = "raised"
  /\ UNCHANGED <<given, order, sudokus, heap, stack, result>>

(* ---------------------------------------------------------------------- *)
Init ==
  /\ given \in Inputs
  /\ order \in Orders
  /\ sudokus = <<1>>
  /\ heap = <<given>>
  /\ stack = <<Frame(1)>>
  /\ mode = "run"
  /\ result = 0

Next ==
  \/ CheckFixed
  \/ CheckCommit
  \/ CheckContradiction
  \/ CheckNarrow
  \/ CalculateSetsDone
  \/ Guess
  \/ Exhausted
  \/ ReturnSelf
  \/ ReturnToCheck
  \/ ReturnSolved
  \/ Finish
  \/ Propagate
  \/ Catch
  \/ Fail

Spec == Init /\ [][Next]_vars

FairSpec == Spec /\ WF_vars(Next)

(* ---------------------------------------------------------------------- *)
(* Vocabulary of the properties: units, fixed cells, solutions.           *)
(* ---------------------------------------------------------------------- *)
Cells == Idx \X Idx

At(p, x) == p[x[1]][x[2]]

Fixed(cell) == cell.t = "digit"

Rows == { {<<r, c>> : c \in Idx} : r \in Idx }

Columns == { {<<r, c>> : r \in Idx} : c \in Idx }

Blocks == { {<<3 * i + a, 3 * j + b>> : a \in 0..2, b \in 0..2} : i \in 0..2, j \in 0..2 }

Units == Rows \cup Columns \cup Blocks

SameUnit(x, y) ==
  \/ x[1] = y[1]
  \/ x[2] = y[2]
  \/ (x[1] \div 3 = y[1] \div 3 /\ x[2] \div 3 = y[2] \div 3)

(* the digits fixed in the row, the column and the block of cell x *)
FixedPeerDigits(p, x) ==
  UNION { At(p, y).v : y \in {z \in Cells : z # x /\ SameUnit(x, z) /\ Fixed(At(p, z))} }

(* no unit holds a fixed digit twice *)
NoDuplicate(p) ==
  \A U \in Units :
    LET F == {x \in U : Fixed(At(p, x))}
    IN  Cardinality(F) = Cardinality(UNION {At(p, x).v : x \in F})

Complete(p) == \A x \in Cells : Fixed(At(p, x))

(* every unit holds every digit exactly once *)
SolvedGrid(p) ==
  \A U \in Units : \A d \in digits :
    Cardinality({x \in U : At(p, x) = Digit(d)}) = 1

KeepsGivens(p, g) == \A x \in Cells : Fixed(At(g, x)) => At(p, x) = At(g, x)

FirstOpen(p) ==
  CHOOSE x \in Cells :
    /\ ~Fixed(At(p, x))
    /\ \A y \in Cells : ~Fixed(At(p, y)) => x[1] * 9 + x[2] <= y[1] * 9 + y[2]

(* the grid has a completion in which every unit holds each digit once *)
RECURSIVE Completable(_)
Completable(p) ==
  IF Complete(p) THEN SolvedGrid(p)
  ELSE LET x == FirstOpen(p)
       IN  \E d \in digits \ FixedPeerDigits(p, x) :
             Completable([p EXCEPT ![x[1]][x[2]] = Digit(d)])

Objects == 1..Len(sudokus)

(* ---------------------------------------------------------------------- *)
(* C1: every grid that solve returns has each digit exactly once in each  *)
(* of its 27 units, and no blank or candidate-set cell.                   *)
(* ---------------------------------------------------------------------- *)
C1_ReturnedGridValid ==
  mode = "returned" => SolvedGrid(PuzzleOf(result)) /\ Complete(PuzzleOf(result))

(* ---------------------------------------------------------------------- *)
(* C2: a puzzle without a valid solution is never answered with a grid:   *)
(* solve ends by raising SudokuContradiction.                             *)
(* ---------------------------------------------------------------------- *)
C2_NoFalseSolution ==
  mode = "returned" => Completable(given)

(* ---------------------------------------------------------------------- *)
(* C3: a puzzle with a valid solution is eventually answered with a       *)
(* solution of it; SudokuContradiction never leaves the outermost solve.  *)
(* ---------------------------------------------------------------------- *)
C3_NoFalseContradiction ==
  /\ <>(mode \in {"returned", "raised"})
  /\ [](mode = "raised" => ~Completable(given))
  /\ []((mode = "returned" /\ Completable(given)) =>
          SolvedGrid(PuzzleOf(result)) /\ KeepsGivens(PuzzleOf(result), given))

(* a solvable puzzle was answered by a branch copy although another copy  *)
(* had run into a cell without candidates                                 *)
C3_Witness ==
  /\ mode = "returned"
  /\ result # 1
  /\ SolvedGrid(PuzzleOf(result))
  /\ \E o \in Objects : \E x \in Cells :
       /\ ~Fixed(At(PuzzleOf(o), x))
       /\ digits \ FixedPeerDigits(PuzzleOf(o), x) = {}
  /\ Completable(given)

(* ---------------------------------------------------------------------- *)
(* C4: check on a cell that already holds a digit changes no cell, raises *)
(* nothing and starts no solve; every given digit stays in place in every *)
(* grid, the copies included.                                             *)
(* ---------------------------------------------------------------------- *)
CheckingFixed ==
  /\ mode = "run"
  /\ stack # <<>>
  /\ Top.pc = "calculate_sets"
  /\ Top.a < 9
  /\ Fixed(PuzzleOf(Top.self)[Top.a][Top.b])

C4_FixedNeverChanged ==
  /\ [][CheckingFixed =>
          /\ heap' = heap
          /\ sudokus' = sudokus
          /\ mode' = "run"
          /\ Len(stack') = Len(stack)
          /\ \A i \in 1..(Len(stack) - 1) : stack'[i] = stack[i]
          /\ [stack'[Len(stack)] EXCEPT !.a = Top.a, !.b = Top.b] = Top]_vars
  /\ [](\A o \in Objects : KeepsGivens(PuzzleOf(o), given))

(* solve returned a branch copy of a puzzle that had givens and blanks *)
C4_Witness ==
  /\ mode = "returned"
  /\ result # 1
  /\ \E x \in Cells : Fixed(At(given, x))
  /\ \E x \in Cells : ~Fixed(At(given, x))
  /\ KeepsGivens(PuzzleOf(result), given)

(* ---------------------------------------------------------------------- *)
(* C5: a step changes the grid of no object but the one whose check is    *)
(* running, and creating a copy changes no existing grid; the frames      *)
(* above a branching frame run on other objects than the branching one.   *)
(* ---------------------------------------------------------------------- *)
RunsCheckOn(o) ==
  /\ mode = "run"
  /\ stack # <<>>
  /\ Top.pc = "calculate_sets"
  /\ Top.self = o

C5_BranchIsolation ==
  /\ [][\A o \in Objects : RunsCheckOn(o) \/ PuzzleOf(o)' = PuzzleOf(o)]_vars
  /\ [](\A i \in 1..Len(stack) : \A j \in (i+1)..Len(stack) :
          stack[i].pc = "constraint_prop" => stack[j].self # stack[i].self)

(* one branch ended by SudokuContradiction, a later one is being solved *)
C5_Witness ==
  /\ mode = "run"
  /\ \E i \in 1..(Len(stack) - 1) :
       /\ stack[i].pc = "constraint_prop"
       /\ Cardinality(stack[i].tried) >= 2
       /\ PuzzleOf(stack[i].self) # PuzzleOf(Top.self)

(* ---------------------------------------------------------------------- *)
(* C6: when forced single-candidate commitments alone fill the grid (an   *)
(* already full grid included), no copy is ever made and solve returns    *)
(* the object it was called on, complete, its givens unchanged.           *)
(* ---------------------------------------------------------------------- *)
RECURSIVE ForcedFill(_)
ForcedFill(p) ==
  LET open == {x \in Cells : ~Fixed(At(p, x))}
      forced == {x \in open : Cardinality(digits \ FixedPeerDigits(p, x)) = 1}
  IN  IF forced = {} \/ \E x \in open : digits \ FixedPeerDigits(p, x) = {}
      THEN p
      ELSE LET x == CHOOSE y \in forced :
                      \A z \in forced : y[1] * 9 + y[2] <= z[1] * 9 + z[2]
           IN  ForcedFill([p EXCEPT ![x[1]][x[2]] =
                             Digit(CHOOSE d \in digits \ FixedPeerDigits(p, x) : TRUE)])

ForcedOnly(p) == Complete(ForcedFill(p))

C6_NoBranchWhenForced ==
  /\ [][Len(sudokus') > Len(sudokus) => ~ForcedOnly(given)]_vars
  /\ [](mode = "raised" => ~ForcedOnly(given))
  /\ []((mode = "returned" /\ ForcedOnly(given)) =>
          /\ result = 1
          /\ Len(sudokus) = 1
          /\ Complete(PuzzleOf(1))
          /\ KeepsGivens(PuzzleOf(1), given))

(* a puzzle with blanks was filled by forced commitments and returned *)
C6_Witness ==
  /\ mode = "returned"
  /\ ~Complete(given)
  /\ ForcedOnly(given)
  /\ result = 1

(* ---------------------------------------------------------------------- *)
(* C7: no branch of a grid is started while a propagation pass on the     *)
(* same grid is still in progress.                                        *)
(* ---------------------------------------------------------------------- *)
C7_PropagationBeforeBranching ==
  \A i \in 1..Len(stack) : \A j \in (i+1)..Len(stack) :
    (stack[i].self = stack[j].self /\ stack[i].pc = "calculate_sets")
      => ~(stack[j].pc = "constraint_prop" /\ stack[j].tried # {})

(* ---------------------------------------------------------------------- *)
(* C8: a constraint_prop frame branches on the first set cell in          *)
(* row-major order only; a returned grid is passed on at once, a          *)
(* SudokuContradiction is caught and the next value tried, and the frame  *)
(* raises exactly when every value of that cell has been tried.           *)
(* ---------------------------------------------------------------------- *)
Branching ==
  /\ mode = "run"
  /\ stack # <<>>
  /\ Top.pc = "constraint_prop"

IsFirstUnknown(p, x) ==
  /\ At(p, x).t = "set"
  /\ \A y \in Cells : y[1] * 9 + y[2] < x[1] * 9 + x[2] => At(p, y).t # "set"

C8_CopyStep ==
  Len(sudokus') > Len(sudokus) =>
    /\ Branching
    /\ Len(sudokus') = Len(sudokus) + 1
    /\ LET p == PuzzleOf(Top.self)
           q == heap'[sudokus'[Len(sudokus')]]
           D == {x \in Cells : At(q, x) # At(p, x)}
       IN  \E x \in D :
             /\ D = {x}
             /\ IsFirstUnknown(p, x)
             /\ Fixed(At(q, x))
             /\ At(q, x).v \subseteq At(p, x).v \ Top.tried
             /\ stack'[Len(stack)].tried = Top.tried \cup At(q, x).v

C8_ReturnStep ==
  (mode = "return" /\ stack # <<>> /\ Top.pc = "constraint_prop") =>
    /\ mode' = "return"
    /\ result' = result
    /\ sudokus' = sudokus
    /\ stack' = SubSeq(stack, 1, Len(stack) - 1)

C8_CatchStep ==
  (mode = "raise" /\ stack # <<>> /\ Top.pc = "constraint_prop") =>
    /\ mode' = "run"
    /\ stack' = stack

C8_RaiseStep ==
  (Branching /\ \E x \in Cells : At(PuzzleOf(Top.self), x).t = "set") =>
    LET p == PuzzleOf(Top.self)
        x == CHOOSE y \in Cells : IsFirstUnknown(p, y)
    IN  /\ mode' = "raise" <=> At(p, x).v \subseteq Top.tried
        /\ mode' # "raise" => Len(sudokus') = Len(sudokus) + 1

C8_FirstUnknownOnly ==
  [][C8_CopyStep /\ C8_ReturnStep /\ C8_CatchStep /\ C8_RaiseStep]_vars

(* a SudokuContradiction reaches a frame that has already tried two values *)
C8_Witness ==
  /\ mode = "raise"
  /\ stack # <<>>
  /\ Top.pc = "constraint_prop"
  /\ Cardinality(Top.tried) >= 2

(* ---------------------------------------------------------------------- *)
(* C9: when the givens hold no digit twice in a unit, no grid, original   *)
(* or copy, ever holds a fixed digit twice in a unit.                     *)
(* ---------------------------------------------------------------------- *)
C9_NoDuplicateFixed ==
  NoDuplicate(given) => \A o \in Objects : NoDuplicate(PuzzleOf(o))

(* guesses and forced commits have been written into a branch copy *)
C9_Witness ==
  /\ NoDuplicate(given)
  /\ Len(sudokus) > 1
  /\ \E o \in Objects :
       Cardinality({x \in Cells : Fixed(At(PuzzleOf(o), x)) /\ ~Fixed(At(given, x))}) >= 3

(* ---------------------------------------------------------------------- *)
(* C10: once calculate_sets has completed on a grid, the grid has no      *)
(* blank cell and every candidate set has at least two digits and is      *)
(* exactly the digits not fixed in the row, column and block of its cell. *)
(* ---------------------------------------------------------------------- *)
Converged(p) ==
  \A x \in Cells :
    /\ At(p, x) # Blank
    /\ At(p, x).t = "set" =>
         /\ Cardinality(At(p, x).v) >= 2
         /\ At(p, x).v = digits \ FixedPeerDigits(p, x)

C10_ExactCandidateSets ==
  \A i \in 1..Len(stack) :
    stack[i].pc = "constraint_prop" => Converged(PuzzleOf(stack[i].self))

(* a pass completed after commits of its own and left candidate sets *)
C10_Witness ==
  /\ mode = "run"
  /\ stack # <<>>
  /\ Top.pc = "constraint_prop"
  /\ \E x \in Cells : At(PuzzleOf(Top.self), x).t = "set"
  /\ \E x \in Cells : At(given, x) = Blank /\ Fixed(At(PuzzleOf(Top.self), x))

====
